---------------------------- MODULE Spec2Model ----------------------------
(***************************************************************************)
(* The lesson store of the timetable application: the Lesson model with    *)
(* its slot resolution and conflict validator (timetable_app/models.py),   *)
(* the Subject-Teacher and Subject-Group association tables, the admin and *)
(* REST write paths (timetable_app/admin.py, views.py, serializers.py);    *)
(* the faculties and groups with the cascade of a delete, the accounts     *)
(* with the registration, login and user detail views (validations.py,     *)
(* urls.py), the filtered list of the view sets, and the validators of the *)
(* created and modified timestamps.                                        *)
(*                                                                         *)
(* Timestamps are minutes since midnight of day 0: datetime.combine(d, t)  *)
(* is d * 24 * 60 + t, and timezone.make_aware, which attaches the fixed   *)
(* project time zone, keeps the order and the distances of these values.   *)
(* Python's None is the value None below; the entities are numbered from 1.*)
(***************************************************************************)
EXTENDS Integers, FiniteSets, Sequences, TLC

VARIABLES
    lessons,          \* table `lesson`: pk -> stored row
    subject_teacher,  \* table `subject_teacher`: set of <<subject, teacher>>
    subject_group,    \* table `subject__group`: set of <<subject, group>>
    self,             \* the Lesson instance in memory (the receiver of clean/save)
    result,           \* what the last call returned or raised
    all_cleaned,      \* history: every save so far followed a clean() that passed
    faculties,        \* table `faculty`: set of primary keys
    group_faculty,    \* table `group`: pk -> faculty_id
    app_user,         \* table `app_user`: pk -> account row
    profiles,         \* the user links of `student` and `teacher`: set of <<kind, user_id>>
    session,          \* the account the client's session is logged in as, or None
    now,              \* timezone.now()
    subjects,         \* table `subject`: set of primary keys
    teachers,         \* table `teacher`: pk -> user_id, or None
    students          \* table `student`: pk -> [user, group], each an id or None

vars == <<lessons, subject_teacher, subject_group, self, result, all_cleaned,
          faculties, group_faculty, app_user, profiles, session, now,
          subjects, teachers, students>>

\* the variables of the lesson store, and the others
lessonVars == <<lessons, subject_teacher, subject_group, self, all_cleaned>>
siteVars == <<faculties, group_faculty, app_user, profiles, session, now,
              subjects, teachers, students>>

\* the tables of the subjects, teachers and students
rosterVars == <<subjects, teachers, students>>

----------------------------------------------------------------------------
(* Bounds of the model *)

NumTeachers == 1
NumGroups   == 1
NumSubjects == 1
NumDates    == 1
MaxLessons  == 2
NumFaculties == 2
MaxGroups   == 2
MaxUsers    == 2
MaxNow      == 5

None == -1

Teachers == 1..NumTeachers
Groups   == 1..NumGroups
Subjects == 1..NumSubjects
Dates    == 1..NumDates
LessonIds == 1..MaxLessons
FacultyIds == 1..NumFaculties
GroupIds == 1..MaxGroups
UserIds == 1..MaxUsers

Opt(S) == S \cup {None}

Range(f) == {f[x] : x \in DOMAIN f}

----------------------------------------------------------------------------
(* models.py: the slot table and Lesson.validate_lesson *)

\* LESSON_SLOT_CHOICES: the six declared slots
LESSON_SLOT_CHOICES == {1, 2, 3, 4, 5, 6}

\* datetime.time(hour, minute) as minutes since midnight
time(hour, minute) == hour * 60 + minute

\* timezone.make_aware(datetime.combine(date, t))
combine(date, t) == date * (24 * 60) + t

\* Python truth value of a field: None and 0 are false
Truthy(x) == x # None /\ x # 0

\* SlotStart with the start of the second slot mistyped
SlotStart_Slip(k) ==
    CASE k = 1 -> time(9, 0)
      [] k = 2 -> time(10, 15)
      [] k = 3 -> time(13, 15)
      [] k = 4 -> time(15, 0)
      [] k = 5 -> time(16, 45)
      [] k = 6 -> time(18, 30)

\* the start_time branch of the if/elif chain over lesson_slot
SlotStart(k) ==
    CASE k = 1 -> time(9, 0)
      [] k = 2 -> time(10, 45)
      [] k = 3 -> time(13, 15)
      [] k = 4 -> time(15, 0)
      [] k = 5 -> time(16, 45)
      [] k = 6 -> time(18, 30)

\* SlotEnd with the end of the fifth slot mistyped
SlotEnd_Slip(k) ==
    CASE k = 1 -> time(10, 30)
      [] k = 2 -> time(12, 15)
      [] k = 3 -> time(14, 45)
      [] k = 4 -> time(16, 30)
      [] k = 5 -> time(18, 45)
      [] k = 6 -> time(20, 0)

\* the end_time branch of the if/elif chain over lesson_slot
SlotEnd(k) ==
    CASE k = 1 -> time(10, 30)
      [] k = 2 -> time(12, 15)
      [] k = 3 -> time(14, 45)
      [] k = 4 -> time(16, 30)
      [] k = 5 -> time(18, 15)
      [] k = 6 -> time(20, 0)

\* the slots the if/elif chain has a branch for; any other truthy slot
\* reaches the final else and raises ValueError
HasBranch(k) == k = 1 \/ k = 2 \/ k = 3 \/ k = 4 \/ k = 5 \/ k = 6

\* Resolve putting None in place of a slot that has no branch, and going on
Resolve_Normalising(obj) ==
    IF Truthy(obj.date) /\ Truthy(obj.lesson_slot)
    THEN IF HasBranch(obj.lesson_slot)
         THEN [raised |-> FALSE,
               obj |-> [obj EXCEPT
                   !.start_time = combine(obj.date, SlotStart(obj.lesson_slot)),
                   !.end_time   = combine(obj.date, SlotEnd(obj.lesson_slot))]]
         ELSE [raised |-> FALSE, obj |-> [obj EXCEPT !.lesson_slot = None]]
    ELSE [raised |-> FALSE, obj |-> obj]

\* lines 429-449: derive start_time/end_time from date and lesson_slot
Resolve(obj) ==
    IF Truthy(obj.date) /\ Truthy(obj.lesson_slot)
    THEN IF HasBranch(obj.lesson_slot)
         THEN [raised |-> FALSE,
               obj |-> [obj EXCEPT
                   !.start_time = combine(obj.date, SlotStart(obj.lesson_slot)),
                   !.end_time   = combine(obj.date, SlotEnd(obj.lesson_slot))]]
         ELSE [raised |-> TRUE, obj |-> obj]
    ELSE [raised |-> FALSE, obj |-> obj]

\* Conflicts with the bounds excluded (< for <=)
Conflicts_Exclusive(lesson, obj) ==
    /\ lesson.start_time # None
    /\ lesson.end_time # None
    /\ \/ (lesson.start_time < obj.start_time /\ obj.start_time < lesson.end_time)
       \/ (lesson.start_time < obj.end_time /\ obj.end_time < lesson.end_time)

\* the body of both for loops: the stored lesson has an interval and the
\* candidate's start or end lies in it, bounds included
Conflicts(lesson, obj) ==
    /\ lesson.start_time # None
    /\ lesson.end_time # None
    /\ \/ (lesson.start_time <= obj.start_time /\ obj.start_time <= lesson.end_time)
       \/ (lesson.start_time <= obj.end_time /\ obj.end_time <= lesson.end_time)

\* Lesson.objects.filter(teacher__id=...)
TeachersLessons(store, teacher) == {l \in Range(store) : l.teacher = teacher}

\* Lesson.objects.filter(group__id=...)
GroupLessons(store, group) == {l \in Range(store) : l.group = group}

\* validate_lesson with the test for a missing interval made on the instance
\* as it was before the resolution
validate_lesson_CheckBeforeResolve(obj, store) ==
    LET r == Resolve(obj)
        s == r.obj
    IN  IF r.raised THEN [ret |-> "ValueError", obj |-> s]
        ELSE IF s.teacher = None THEN [ret |-> "AttributeError", obj |-> s]
        ELSE IF obj.start_time = None \/ obj.end_time = None
             THEN [ret |-> "False", obj |-> s]
        ELSE IF \E l \in TeachersLessons(store, s.teacher) : Conflicts(l, s)
             THEN [ret |-> "False", obj |-> s]
        ELSE IF s.group = None THEN [ret |-> "AttributeError", obj |-> s]
        ELSE IF \E l \in GroupLessons(store, s.group) : Conflicts(l, s)
             THEN [ret |-> "False", obj |-> s]
        ELSE [ret |-> "True", obj |-> s]

\* Lesson.validate_lesson: ret is "True", "False", or the exception raised;
\* obj is the instance afterwards (start_time/end_time assigned)
validate_lesson(obj, store) ==
    LET r == Resolve(obj)
        s == r.obj
    IN  IF r.raised THEN [ret |-> "ValueError", obj |-> s]
        ELSE IF s.teacher = None THEN [ret |-> "AttributeError", obj |-> s]
        ELSE IF s.start_time = None \/ s.end_time = None
             THEN [ret |-> "False", obj |-> s]
        ELSE IF \E l \in TeachersLessons(store, s.teacher) : Conflicts(l, s)
             THEN [ret |-> "False", obj |-> s]
        ELSE IF s.group = None THEN [ret |-> "AttributeError", obj |-> s]
        ELSE IF \E l \in GroupLessons(store, s.group) : Conflicts(l, s)
             THEN [ret |-> "False", obj |-> s]
        ELSE [ret |-> "True", obj |-> s]

----------------------------------------------------------------------------
(* models.py: Lesson.clean *)

\* Teacher.objects.filter(subject__id=subject_id): the teachers with a
\* subject_teacher row for the subject; with subject_id None the ORM turns
\* the lookup into IS NULL over the outer join, which selects the teachers
\* that have no subject_teacher row at all
TeachersOfSubject(st, subject_id) ==
    IF subject_id = None
    THEN {t \in Teachers : \A s \in Subjects : <<s, t>> \notin st}
    ELSE {t \in Teachers : <<subject_id, t>> \in st}

\* Group.objects.filter(subject__id=subject_id), likewise
GroupsOfSubject(sg, subject_id) ==
    IF subject_id = None
    THEN {g \in Groups : \A s \in Subjects : <<s, g>> \notin sg}
    ELSE {g \in Groups : <<subject_id, g>> \in sg}

\* clean with the group check left out
clean_NoGroupCheck(obj, store, st, sg) ==
    IF obj.teacher \notin TeachersOfSubject(st, obj.subject)
    THEN [outcome |-> "UnauthorizedTeacher", obj |-> [obj EXCEPT !.cleaned = FALSE]]
    ELSE LET v == validate_lesson(obj, store)
         IN  IF v.ret = "True"
             THEN [outcome |-> "ok", obj |-> [v.obj EXCEPT !.cleaned = TRUE]]
             ELSE IF v.ret = "False"
             THEN [outcome |-> "Busy", obj |-> [v.obj EXCEPT !.cleaned = FALSE]]
             ELSE [outcome |-> v.ret, obj |-> [v.obj EXCEPT !.cleaned = FALSE]]

\* Lesson.clean: outcome "ok", or what it raises.  The three ValidationErrors
\* are told apart by their message: UnauthorizedTeacher ("It isn't teacher's
\* ... subject"), UnauthorizedGroup ("The lesson ... does not belong to the
\* group"), Busy ("The teacher or group is busy at this time.").
\* cleaned records that this instance, as it is, has passed clean().
clean(obj, store, st, sg) ==
    IF obj.teacher \notin TeachersOfSubject(st, obj.subject)
    THEN [outcome |-> "UnauthorizedTeacher", obj |-> [obj EXCEPT !.cleaned = FALSE]]
    ELSE IF obj.group \notin GroupsOfSubject(sg, obj.subject)
    THEN [outcome |-> "UnauthorizedGroup", obj |-> [obj EXCEPT !.cleaned = FALSE]]
    ELSE LET v == validate_lesson(obj, store)
         IN  IF v.ret = "True"
             THEN [outcome |-> "ok", obj |-> [v.obj EXCEPT !.cleaned = TRUE]]
             ELSE IF v.ret = "False"
             THEN [outcome |-> "Busy", obj |-> [v.obj EXCEPT !.cleaned = FALSE]]
             ELSE [outcome |-> v.ret, obj |-> [v.obj EXCEPT !.cleaned = FALSE]]

IsValidationError(outcome) ==
    outcome \in {"UnauthorizedTeacher", "UnauthorizedGroup", "Busy"}

----------------------------------------------------------------------------
(* Lesson instances *)

\* Lesson(**attrs): start_time and end_time default to None
Lesson(pk, date, lesson_slot, subject, teacher, group) ==
    [pk |-> pk, date |-> date, lesson_slot |-> lesson_slot,
     start_time |-> None, end_time |-> None,
     subject |-> subject, teacher |-> teacher, group |-> group,
     cleaned |-> FALSE]

\* no instance in memory yet
NoLesson == Lesson(None, None, None, None, None, None)

NoResult == [op |-> "none", outcome |-> "none"]

\* the other tables as the lesson store finds them: one faculty holding every
\* group, every subject and every teacher stored, no student, no account,
\* nobody logged in
RestSite ==
    /\ faculties = {1}
    /\ group_faculty = [g \in Groups |-> 1]
    /\ app_user = <<>>
    /\ profiles = {}
    /\ session = None
    /\ now = 0
    /\ subjects = Subjects
    /\ teachers = [t \in Teachers |-> None]
    /\ students = <<>>

----------------------------------------------------------------------------
(* Calls of validate_lesson on its own: SpecValidate *)

\* the slot values a caller may put in lesson_slot (an IntegerField)
SlotInputs == Opt(0 .. 7)

\* clock times the directly assigned intervals are built from
Marks == {time(9, 0), time(10, 30), time(10, 45), time(12, 15)}

\* start_time/end_time pairs on one date, start before end
Intervals ==
    {iv \in UNION {{<<combine(d, a), combine(d, b)>> : a \in Marks, b \in Marks} : d \in Dates} :
        iv[1] < iv[2]}

WithInterval(obj, iv) == [obj EXCEPT !.start_time = iv[1], !.end_time = iv[2]]

\* rows written by Lesson.objects.create(teacher=.., group=.., start_time=..,
\* end_time=..): no validation runs, any interval or none is stored
StoredRows(pk) ==
    LET base == {Lesson(pk, None, None, None, t, g) : t \in {None, 1}, g \in {None, 1}}
    IN  base \cup {WithInterval(l, iv) : l \in base, iv \in Intervals}

\* instances a caller hands to validate_lesson: fresh ones with any date and
\* slot, and ones that already carry an interval
Candidates(pk) ==
    LET fresh == {Lesson(pk, d, k, None, t, g) :
                    d \in Opt(Dates), k \in SlotInputs, t \in Opt(Teachers), g \in Opt(Groups)}
        carry == {WithInterval(Lesson(pk, d, k, None, t, g), iv) :
                    d \in Opt(Dates), k \in {None, 0, 1, 7},
                    t \in Opt(Teachers), g \in Opt(Groups), iv \in Intervals}
    IN  fresh \cup carry

InitValidate ==
    /\ lessons \in {<<>>} \cup {(1 :> row) : row \in StoredRows(1)}
    /\ subject_teacher = {}
    /\ subject_group = {}
    /\ self \in Candidates(2)
    /\ result = NoResult
    /\ all_cleaned = FALSE
    /\ RestSite

\* self.validate_lesson()
CallValidateLesson ==
    /\ self.pk # None
    /\ LET v == validate_lesson(self, lessons)
       IN  /\ self' = v.obj
           /\ result' = [op |-> "validate_lesson", outcome |-> v.ret]
    /\ UNCHANGED <<lessons, subject_teacher, subject_group, all_cleaned, siteVars>>

NextValidate == CallValidateLesson

SpecValidate == InitValidate /\ [][NextValidate]_vars

----------------------------------------------------------------------------
(* Calls of clean on a candidate against a store of one earlier lesson:    *)
(* SpecClean                                                               *)

\* association tables: empty, one row, or every row
AssocChoices(pairs) == {a \in SUBSET pairs : Cardinality(a) <= 1} \cup {pairs}

\* the row Lesson.objects.create(date=.., lesson_slot=.., ...) writes: save()
\* runs no validation and derives no interval
Created(pk, date, lesson_slot, subject, teacher, group) ==
    Lesson(pk, date, lesson_slot, subject, teacher, group)

\* an earlier lesson on slot 1: as objects.create left it, or as a clean()
\* before save() left it, with the interval derived
EarlierRows(pk) ==
    LET made == {Created(pk, d, 1, IF t = None THEN None ELSE 1, t, g) :
                    d \in Dates, t \in {None, 1}, g \in {None, 1}}
    IN  made \cup {Resolve(l).obj : l \in made}

\* the slot values the candidates of clean() are drawn from
CleanSlots == {None, 0, 1, 2, 7}

CleanCandidates(pk) ==
    {Lesson(pk, d, k, s, t, g) :
        d \in Opt(Dates), k \in CleanSlots, s \in Opt(Subjects),
        t \in Opt(Teachers), g \in Opt(Groups)}

\* the candidate is a new instance, or (as in tests/test_models.py) a row
\* that objects.create has stored already
InitClean ==
    /\ self \in CleanCandidates(2)
    /\ lessons \in {<<>>}
                   \cup {(1 :> row) : row \in EarlierRows(1)}
                   \cup {(1 :> row) @@ (2 :> self) : row \in EarlierRows(1)}
    /\ subject_teacher \in AssocChoices(Subjects \X Teachers)
    /\ subject_group \in AssocChoices(Subjects \X Groups)
    /\ result = NoResult
    /\ all_cleaned = FALSE
    /\ RestSite

\* self.clean()
CallClean ==
    /\ self.pk # None
    /\ LET c == clean(self, lessons, subject_teacher, subject_group)
       IN  /\ self' = c.obj
           /\ result' = [op |-> "clean", outcome |-> c.outcome]
    /\ UNCHANGED <<lessons, subject_teacher, subject_group, all_cleaned, siteVars>>

NextClean == CallClean

SpecClean == InitClean /\ [][NextClean]_vars

----------------------------------------------------------------------------
(* The store and its write paths: Spec *)

\* the field values the admin form of a lesson accepts: every field is
\* required (blank=False) and lesson_slot is one of the choices
FormSlots == {1, 2}

\* id = UUIDField(default=uuid4): a primary key no row and no instance has
FreshPk == CHOOSE pk \in LessonIds \ (DOMAIN lessons \cup {self.pk}) :
              \A q \in LessonIds \ (DOMAIN lessons \cup {self.pk}) : pk <= q

HasFreshPk == LessonIds \ (DOMAIN lessons \cup {self.pk}) # {}

\* Model.save(): the row of the instance is inserted or replaced, as it is
Saved(store, obj) == (obj.pk :> obj) @@ store

\* LessonAdmin, add view, up to the end of form validation: the form builds
\* the instance and Lesson.clean() passes on it; the instance then waits for
\* save_model.  Another request may be served in between.
BeginAdd(date, lesson_slot, subject, teacher, group) ==
    /\ self = NoLesson
    /\ HasFreshPk
    /\ LET c == clean(Lesson(FreshPk, date, lesson_slot, subject, teacher, group),
                      lessons, subject_teacher, subject_group)
       IN  /\ c.outcome = "ok"
           /\ self' = c.obj
           /\ result' = [op |-> "clean", outcome |-> c.outcome]
    /\ UNCHANGED <<lessons, subject_teacher, subject_group, all_cleaned, siteVars>>

\* LessonAdmin.save_model of the waiting instance: self.save()
FinishAdd ==
    /\ self # NoLesson
    /\ lessons' = Saved(lessons, self)
    /\ self' = NoLesson
    /\ result' = [op |-> "save", outcome |-> "ok"]
    /\ UNCHANGED <<subject_teacher, subject_group, all_cleaned, siteVars>>

\* AdminAdd saving the instance whatever clean() said
AdminAdd_SaveAnyway(date, lesson_slot, subject, teacher, group) ==
    /\ HasFreshPk
    /\ LET c == clean(Lesson(FreshPk, date, lesson_slot, subject, teacher, group),
                      lessons, subject_teacher, subject_group)
       IN  /\ lessons' = Saved(lessons, c.obj)
           /\ result' = [op |-> "AdminAdd", outcome |-> c.outcome]
    /\ UNCHANGED <<self, subject_teacher, subject_group, all_cleaned, siteVars>>

\* LessonAdmin, add view, as one request: the form builds the instance, its
\* validation runs Lesson.clean(), and the instance is saved if it passed
AdminAdd(date, lesson_slot, subject, teacher, group) ==
    /\ HasFreshPk
    /\ LET c == clean(Lesson(FreshPk, date, lesson_slot, subject, teacher, group),
                      lessons, subject_teacher, subject_group)
       IN  /\ lessons' = IF c.outcome = "ok" THEN Saved(lessons, c.obj) ELSE lessons
           /\ result' = [op |-> "AdminAdd", outcome |-> c.outcome]
    /\ UNCHANGED <<self, subject_teacher, subject_group, all_cleaned, siteVars>>

\* LessonAdmin, change view, as one request: the stored instance is loaded,
\* the form assigns its editable fields (start_time and end_time are
\* editable=False and keep their values), Lesson.clean() runs, and the
\* instance is saved if it passed
AdminChange(pk, date, lesson_slot, subject, teacher, group) ==
    /\ pk \in DOMAIN lessons
    /\ LET c == clean([lessons[pk] EXCEPT !.date = date, !.lesson_slot = lesson_slot,
                                          !.subject = subject, !.teacher = teacher,
                                          !.group = group, !.cleaned = FALSE],
                      lessons, subject_teacher, subject_group)
       IN  /\ lessons' = IF c.outcome = "ok" THEN Saved(lessons, c.obj) ELSE lessons
           /\ result' = [op |-> "AdminChange", outcome |-> c.outcome]
    /\ UNCHANGED <<self, subject_teacher, subject_group, all_cleaned, siteVars>>

\* SubjectTeacherInline / SubjectGroupInline of the admin: rows of the
\* association tables are added and deleted
AddSubjectTeacher(s, t) ==
    /\ <<s, t>> \notin subject_teacher
    /\ subject_teacher' = subject_teacher \cup {<<s, t>>}
    /\ result' = NoResult
    /\ UNCHANGED <<lessons, subject_group, self, all_cleaned, siteVars>>

RemoveSubjectTeacher(s, t) ==
    /\ <<s, t>> \in subject_teacher
    /\ subject_teacher' = subject_teacher \ {<<s, t>>}
    /\ result' = NoResult
    /\ UNCHANGED <<lessons, subject_group, self, all_cleaned, siteVars>>

AddSubjectGroup(s, g) ==
    /\ <<s, g>> \notin subject_group
    /\ subject_group' = subject_group \cup {<<s, g>>}
    /\ result' = NoResult
    /\ UNCHANGED <<lessons, subject_teacher, self, all_cleaned, siteVars>>

RemoveSubjectGroup(s, g) ==
    /\ <<s, g>> \in subject_group
    /\ subject_group' = subject_group \ {<<s, g>>}
    /\ result' = NoResult
    /\ UNCHANGED <<lessons, subject_teacher, self, all_cleaned, siteVars>>

----------------------------------------------------------------------------
(* views.py, serializers.py: the REST view set of lessons *)

\* request.user: the two flags has_permission reads
Users == [is_superuser : BOOLEAN, is_staff : BOOLEAN]

\* Permission.has_permission
has_permission(method, user) ==
    IF method \in {"GET", "HEAD", "OPTIONS", "PATCH"}
    THEN TRUE
    ELSE user.is_superuser \/ user.is_staff

\* the request values of the two writable fields of LessonSerializer
ApiDates == Opt(Dates)
ApiSlots == {None, 1, 2, 7}

\* LessonSerializer validation of the request data: lesson_slot is a choice
\* field over LESSON_SLOT_CHOICES that admits null; teacher, group and
\* subject are read_only nested serializers, start_time and end_time are
\* editable=False, so none of them is taken from the request
is_valid(date, lesson_slot) == lesson_slot = None \/ lesson_slot \in LESSON_SLOT_CHOICES

\* LessonSerializer(instance).data: the eight fields of Meta.fields, the
\* primary key under the name id
LessonSerializer_data(row) ==
    [id |-> row.pk, lesson_slot |-> row.lesson_slot, date |-> row.date,
     start_time |-> row.start_time, end_time |-> row.end_time,
     subject |-> row.subject, teacher |-> row.teacher, group |-> row.group]

\* POST /api/lessons/: ModelViewSet.create -> serializer.save() ->
\* Lesson.objects.create(**validated_data)
ApiCreate(user, date, lesson_slot) ==
    /\ HasFreshPk
    /\ IF ~has_permission("POST", user)
       THEN /\ result' = [op |-> "POST", outcome |-> "403"]
            /\ lessons' = lessons
       ELSE IF ~is_valid(date, lesson_slot)
       THEN /\ result' = [op |-> "POST", outcome |-> "400"]
            /\ lessons' = lessons
       ELSE /\ result' = [op |-> "POST", outcome |-> "201"]
            /\ lessons' = Saved(lessons, Created(FreshPk, date, lesson_slot, None, None, None))
    /\ all_cleaned' = (all_cleaned /\ result'.outcome # "201")
    /\ UNCHANGED <<self, subject_teacher, subject_group, siteVars>>

\* PUT or PATCH /api/lessons/<pk>/: ModelViewSet.update -> serializer.save()
\* -> the validated fields are set on the stored instance, instance.save()
ApiUpdate(method, user, pk, date, lesson_slot) ==
    /\ pk \in DOMAIN lessons
    /\ IF ~has_permission(method, user)
       THEN /\ result' = [op |-> method, outcome |-> "403"]
            /\ lessons' = lessons
       ELSE IF ~is_valid(date, lesson_slot)
       THEN /\ result' = [op |-> method, outcome |-> "400"]
            /\ lessons' = lessons
       ELSE /\ result' = [op |-> method, outcome |-> "200"]
            /\ lessons' = Saved(lessons, [lessons[pk] EXCEPT !.date = date,
                                             !.lesson_slot = lesson_slot,
                                             !.cleaned = FALSE])
    /\ all_cleaned' = (all_cleaned /\ result'.outcome # "200")
    /\ UNCHANGED <<self, subject_teacher, subject_group, siteVars>>

\* DELETE /api/lessons/<pk>/
ApiDestroy(user, pk) ==
    /\ pk \in DOMAIN lessons
    /\ IF ~has_permission("DELETE", user)
       THEN /\ result' = [op |-> "DELETE", outcome |-> "403"]
            /\ lessons' = lessons
       ELSE /\ result' = [op |-> "DELETE", outcome |-> "204"]
            /\ lessons' = [q \in DOMAIN lessons \ {pk} |-> lessons[q]]
    /\ UNCHANGED <<self, subject_teacher, subject_group, all_cleaned, siteVars>>

Init ==
    /\ lessons = <<>>
    /\ subject_teacher = {}
    /\ subject_group = {}
    /\ self = NoLesson
    /\ result = NoResult
    /\ all_cleaned = TRUE
    /\ RestSite

Next ==
    \/ \E d \in Dates, k \in FormSlots, s \in Subjects, t \in Teachers, g \in Groups :
          \/ BeginAdd(d, k, s, t, g)
          \/ AdminAdd(d, k, s, t, g)
          \/ \E pk \in LessonIds : AdminChange(pk, d, k, s, t, g)
    \/ FinishAdd
    \/ \E s \in Subjects, t \in Teachers :
          AddSubjectTeacher(s, t) \/ RemoveSubjectTeacher(s, t)
    \/ \E s \in Subjects, g \in Groups :
          AddSubjectGroup(s, g) \/ RemoveSubjectGroup(s, g)
    \/ \E user \in Users, d \in ApiDates, k \in ApiSlots :
          \/ ApiCreate(user, d, k)
          \/ \E pk \in LessonIds, method \in {"PUT", "PATCH"} :
                ApiUpdate(method, user, pk, d, k)
    \/ \E user \in Users, pk \in LessonIds : ApiDestroy(user, pk)

Spec == Init /\ [][Next]_vars

----------------------------------------------------------------------------
(* Faculties and groups, their REST view sets and the cascade of a delete: *)
(* SpecFaculty                                                             *)

\* the collector that leaves the groups of the faculty where they are
GroupsOfFaculty_Kept(f) == {}

\* Group.faculty = ForeignKey(Faculty, on_delete=CASCADE): the groups the
\* collector of Faculty.delete() gathers, those whose faculty_id is f
GroupsOfFaculty(f) == {g \in DOMAIN group_faculty : group_faculty[g] = f}

\* the user links of the rows of the teacher and student tables
Links(tch, std) ==
    {<<"teacher", tch[t]>> : t \in {q \in DOMAIN tch : tch[q] # None}}
    \cup {<<"student", std[n].user>> : n \in {q \in DOMAIN std : std[q].user # None}}

\* the delete of a set of groups, with what hangs on them by on_delete=CASCADE:
\* Lesson.group, SubjectGroup.group and Student.group
DeleteGroups(gs) ==
    /\ group_faculty' = [g \in DOMAIN group_faculty \ gs |-> group_faculty[g]]
    /\ lessons' = [pk \in {q \in DOMAIN lessons : lessons[q].group \notin gs} |-> lessons[pk]]
    /\ subject_group' = {r \in subject_group : r[2] \notin gs}
    /\ students' = [n \in {q \in DOMAIN students : students[q].group \notin gs} |-> students[n]]
    /\ profiles' = Links(teachers, students')

\* POST /api/faculties/: FacultySerializer has title, code_faculty and
\* description writable, the row is created with a new primary key
ApiCreateFaculty(user, f) ==
    /\ f \notin faculties
    /\ IF ~has_permission("POST", user)
       THEN /\ result' = [op |-> "POST", path |-> "faculties", user |-> user, outcome |-> "403"]
            /\ faculties' = faculties
       ELSE /\ result' = [op |-> "POST", path |-> "faculties", user |-> user, outcome |-> "201"]
            /\ faculties' = faculties \cup {f}
    /\ UNCHANGED <<lessons, subject_teacher, subject_group, self, all_cleaned,
                   group_faculty, app_user, profiles, session, now, rosterVars>>

\* PUT or PATCH /api/faculties/<pk>/: the text fields of the row are
\* replaced; the primary key and the rows that refer to it stay
ApiUpdateFaculty(method, user, f) ==
    /\ f \in faculties
    /\ result' = [op |-> method, path |-> "faculties", user |-> user,
                  outcome |-> IF has_permission(method, user) THEN "200" ELSE "403"]
    /\ UNCHANGED <<lessonVars, siteVars>>

\* POST /api/groups/: faculty and subjects are read_only in GroupSerializer,
\* so validated_data holds the title alone and Group.objects.create(title=..)
\* inserts a row with faculty_id NULL into a NOT NULL column
ApiCreateGroup(user, g) ==
    /\ g \notin DOMAIN group_faculty
    /\ result' = [op |-> "POST", path |-> "groups", user |-> user,
                  outcome |-> IF has_permission("POST", user)
                              THEN "IntegrityError" ELSE "403"]
    /\ UNCHANGED <<lessonVars, siteVars>>

\* GroupAdmin, add view: the form requires a faculty
AdminAddGroup(g, f) ==
    /\ g \notin DOMAIN group_faculty
    /\ f \in faculties
    /\ group_faculty' = (g :> f) @@ group_faculty
    /\ result' = [op |-> "AdminAddGroup", outcome |-> "ok"]
    /\ UNCHANGED <<lessonVars, faculties, app_user, profiles, session, now, rosterVars>>

\* DELETE /api/faculties/<pk>/: instance.delete() with its cascade; deleted
\* is the number of groups the delete took along
ApiDestroyFaculty(user, f) ==
    /\ f \in faculties
    /\ IF ~has_permission("DELETE", user)
       THEN /\ result' = [op |-> "DELETE", path |-> "faculties", user |-> user,
                          outcome |-> "403", pk |-> f, deleted |-> 0]
            /\ UNCHANGED <<faculties, group_faculty, lessons, subject_group,
                           students, profiles>>
       ELSE /\ result' = [op |-> "DELETE", path |-> "faculties", user |-> user,
                          outcome |-> "204", pk |-> f,
                          deleted |-> Cardinality(GroupsOfFaculty(f))]
            /\ faculties' = faculties \ {f}
            /\ DeleteGroups(GroupsOfFaculty(f))
    /\ UNCHANGED <<subject_teacher, self, all_cleaned, app_user, session, now,
                   subjects, teachers>>

\* DELETE /api/groups/<pk>/
ApiDestroyGroup(user, g) ==
    /\ g \in DOMAIN group_faculty
    /\ IF ~has_permission("DELETE", user)
       THEN /\ result' = [op |-> "DELETE", path |-> "groups", user |-> user,
                          outcome |-> "403", pk |-> g, deleted |-> 0]
            /\ UNCHANGED <<group_faculty, lessons, subject_group, students, profiles>>
       ELSE /\ result' = [op |-> "DELETE", path |-> "groups", user |-> user,
                          outcome |-> "204", pk |-> g, deleted |-> 1]
            /\ DeleteGroups({g})
    /\ UNCHANGED <<subject_teacher, self, all_cleaned, faculties, app_user,
                   session, now, subjects, teachers>>

\* a site with some faculties and groups, at most one lesson and at most
\* one subject association of a stored group
InitFaculty ==
    /\ faculties \in SUBSET FacultyIds
    /\ group_faculty \in UNION {[gs -> faculties] : gs \in SUBSET GroupIds}
    /\ lessons \in {<<>>} \cup
          {(1 :> Created(1, None, None, None, None, g)) : g \in DOMAIN group_faculty}
    /\ subject_group \in {{}} \cup {{<<1, g>>} : g \in DOMAIN group_faculty}
    /\ subject_teacher = {}
    /\ self = NoLesson
    /\ result = NoResult
    /\ all_cleaned = FALSE
    /\ app_user = <<>>
    /\ profiles = {}
    /\ session = None
    /\ now = 0
    /\ subjects = Subjects
    /\ teachers = [t \in Teachers |-> None]
    /\ students = <<>>

NextFaculty ==
    \/ \E user \in Users, f \in FacultyIds :
          \/ ApiCreateFaculty(user, f)
          \/ ApiDestroyFaculty(user, f)
          \/ \E method \in {"PUT", "PATCH"} : ApiUpdateFaculty(method, user, f)
    \/ \E user \in Users, g \in GroupIds :
          \/ ApiCreateGroup(user, g)
          \/ ApiDestroyGroup(user, g)
    \/ \E g \in GroupIds, f \in FacultyIds : AdminAddGroup(g, f)

SpecFaculty == InitFaculty /\ [][NextFaculty]_vars

----------------------------------------------------------------------------
(* Accounts: validations.py, the registration, login and user detail views *)
(* of views.py, AppUserManager of models.py: SpecAccounts                  *)
(* Strings are sequences of one-character strings.                         *)

RECURSIVE lstrip(_)
\* str.lstrip(): the leading blanks removed
lstrip(str) == IF str # <<>> /\ Head(str) = " " THEN lstrip(Tail(str)) ELSE str

RECURSIVE rstrip(_)
\* str.rstrip(): the trailing blanks removed
rstrip(str) ==
    IF str # <<>> /\ str[Len(str)] = " "
    THEN rstrip(SubSeq(str, 1, Len(str) - 1))
    ELSE str

\* str.strip()
strip(str) == rstrip(lstrip(str))

\* str.lower() on the letters in use
lower(str) == [i \in DOMAIN str |-> IF str[i] = "B" THEN "b" ELSE str[i]]

\* n times the character c
Rep(c, n) == [i \in 1..n |-> c]

\* BaseUserManager.normalize_email: the address stripped and the part after
\* the last @ put in lower case; a value without @ is returned as it is
normalize_email(email) ==
    LET e == strip(email)
        ats == {i \in DOMAIN e : e[i] = "@"}
    IN  IF ats = {} THEN email
        ELSE LET at == CHOOSE i \in ats : \A j \in ats : j <= i
             IN  SubSeq(e, 1, at) \o lower(SubSeq(e, at + 1, Len(e)))

\* UserModel.objects.filter(email=email).exists()
email_exists(accounts, email) == \E pk \in DOMAIN accounts : accounts[pk].email = email

\* custom_validation without the look-up of the email
custom_validation_NoLookup(data, accounts) ==
    LET email == strip(data.email)
        username == strip(data.username)
        password == strip(data.password)
    IN  IF email = <<>> THEN "ValidationError"
        ELSE IF password = <<>> \/ Len(password) < 8 THEN "ValidationError"
        ELSE IF username = <<>> THEN "ValidationError"
        ELSE "ok"

\* validations.custom_validation: "ok" when it returns data, else the error
custom_validation(data, accounts) ==
    LET email == strip(data.email)
        username == strip(data.username)
        password == strip(data.password)
    IN  IF email = <<>> \/ email_exists(accounts, email) THEN "ValidationError"
        ELSE IF password = <<>> \/ Len(password) < 8 THEN "ValidationError"
        ELSE IF username = <<>> THEN "ValidationError"
        ELSE "ok"

\* validations.validate_email / validate_password: True, or the error raised
validate_email(data) == IF strip(data.email) = <<>> THEN "ValidationError" ELSE "True"
validate_password(data) == IF strip(data.password) = <<>> THEN "ValidationError" ELSE "True"

\* what the EmailField of a serializer accepts: after trimming, a local part
\* and a domain around an @
IsEmail(str) ==
    LET e == strip(str)
    IN  /\ Len(e) >= 3
        /\ \E i \in 2..(Len(e) - 1) : e[i] = "@"
        /\ e[1] # "@" /\ e[Len(e)] # "@"

\* UserRegisterSerializer(data=..).is_valid(): the format of the email and
\* the UniqueValidator of AppUser.email, both on the trimmed value
register_is_valid(data, accounts) ==
    IsEmail(data.email) /\ ~email_exists(accounts, strip(data.email))

\* NewUser taking the two flags from the request data when it names them
NewUser_FlagsFromData(data) ==
    [email |-> normalize_email(data.email), username |-> data.username,
     password |-> data.password, is_active |-> TRUE,
     is_staff |-> IF "is_staff" \in DOMAIN data THEN data.is_staff ELSE FALSE,
     is_superuser |-> IF "is_superuser" \in DOMAIN data THEN data.is_superuser ELSE FALSE]

\* the row AppUserManager.create_user and UserRegisterSerializer.create
\* leave: self.model(email=email) with the defaults of is_staff,
\* is_superuser and is_active, the password and then the username set
NewUser(data) ==
    [email |-> normalize_email(data.email), username |-> data.username,
     password |-> data.password, is_active |-> TRUE,
     is_staff |-> FALSE, is_superuser |-> FALSE]

\* the row AppUserManager.create_superuser leaves
create_superuser(email, username, password) ==
    [NewUser([email |-> email, username |-> username, password |-> password])
        EXCEPT !.is_superuser = TRUE, !.is_staff = TRUE]

\* the request bodies of the registration and login views
Emails ==
    {<<>>, <<" ">>, <<"a">>, <<"a", "@", "b">>, <<" ", "a", "@", "b">>,
     <<"a", "@", "B">>, <<"c", "@", "b">>}
Usernames == {<<>>, <<" ">>, <<"u">>}
Passwords ==
    {<<>>, Rep("x", 7) \o <<" ">>, Rep("x", 8), <<" ">> \o Rep("y", 8)}

FreshUser == CHOOSE pk \in UserIds \ DOMAIN app_user :
                \A q \in UserIds \ DOMAIN app_user : pk <= q

\* UserRegister.post.  An exception that leaves the view is the outcome.
Register(email, username, password) ==
    LET data == [email |-> email, username |-> username, password |-> password]
        outcome ==
            IF custom_validation(data, app_user) # "ok" THEN "ValidationError"
            ELSE IF ~register_is_valid(data, app_user) THEN "400"
            ELSE IF email_exists(app_user, normalize_email(email)) THEN "IntegrityError"
            ELSE "201"
    IN  /\ outcome = "201" => UserIds \ DOMAIN app_user # {}
        /\ result' = [op |-> "register", outcome |-> outcome, data |-> data]
        /\ app_user' = IF outcome = "201"
                       THEN (FreshUser :> NewUser(data)) @@ app_user
                       ELSE app_user
        /\ UNCHANGED <<lessonVars, faculties, group_faculty, profiles, session, now,
                       rosterVars>>

\* UserLoginSerializer.check_user -> authenticate(username=email, password=
\* password): the account with this email, if the password is its password
\* and it is active, else None
check_user(data, accounts) ==
    LET found == {pk \in DOMAIN accounts :
                    /\ accounts[pk].email = data.email
                    /\ accounts[pk].password = data.password
                    /\ accounts[pk].is_active}
    IN  IF found = {} THEN None ELSE CHOOSE pk \in found : TRUE

\* UserLogin.post
Login(email, password) ==
    LET data == [email |-> email, password |-> password]
        user == check_user(data, app_user)
        outcome ==
            IF validate_email(data) # "True" THEN "ValidationError"
            ELSE IF validate_password(data) # "True" THEN "ValidationError"
            ELSE IF ~IsEmail(email) THEN "400"
            ELSE IF user = None THEN "404"
            ELSE "200"
    IN  /\ result' = [op |-> "login", outcome |-> outcome, data |-> data, before |-> session]
        /\ session' = IF outcome = "200" THEN user ELSE session
        /\ UNCHANGED <<lessonVars, faculties, group_faculty, app_user, profiles, now,
                       rosterVars>>

\* UserLogout.post
Logout ==
    /\ session # None
    /\ session' = None
    /\ result' = [op |-> "logout", outcome |-> "200"]
    /\ UNCHANGED <<lessonVars, faculties, group_faculty, app_user, profiles, now,
                   rosterVars>>

\* CustomUserAdmin, change view: the is_active box of an account
AdminSetActive(pk, flag) ==
    /\ pk \in DOMAIN app_user
    /\ app_user[pk].is_active # flag
    /\ app_user' = [app_user EXCEPT ![pk].is_active = flag]
    /\ result' = NoResult
    /\ UNCHANGED <<lessonVars, faculties, group_faculty, profiles, session, now,
                   rosterVars>>

\* a primary key no row of the table has
NewPk(table) == CHOOSE n \in 1..(Cardinality(DOMAIN table) + 1) : n \notin DOMAIN table

\* StudentAdmin / TeacherAdmin, add view: a profile linked to an account by
\* its OneToOneField user; the group of a student may be left empty
AdminAddProfile(kind, pk) ==
    /\ pk \in DOMAIN app_user
    /\ <<kind, pk>> \notin profiles
    /\ IF kind = "teacher"
       THEN /\ teachers' = (NewPk(teachers) :> pk) @@ teachers
            /\ students' = students
       ELSE /\ students' = (NewPk(students) :> [user |-> pk, group |-> None]) @@ students
            /\ teachers' = teachers
    /\ profiles' = profiles \cup {<<kind, pk>>}
    /\ result' = NoResult
    /\ UNCHANGED <<lessonVars, faculties, group_faculty, app_user, session, now, subjects>>

\* urls.py: path('api/user/<str:id>/student/', ...) and .../teacher/: the
\* keyword arguments the resolver hands to the view
url_kwargs(id) == [id |-> id]

\* UserStudentDetailView.get / UserTeacherDetailView.get(self, request,
\* user_id=None): the body of the handler
detail_get(kind, user_id) ==
    IF user_id \notin DOMAIN app_user THEN "404 user"
    ELSE IF <<kind, user_id>> \notin profiles THEN "404 profile"
    ELSE "200"

\* handler(request, **kwargs): Python binds the keyword arguments to the
\* parameters of get (request, user_id); any other name is a TypeError
call_get(kind, kwargs) ==
    IF DOMAIN kwargs \subseteq {"user_id"}
    THEN detail_get(kind, IF "user_id" \in DOMAIN kwargs THEN kwargs.user_id ELSE None)
    ELSE "TypeError"

\* GET /api/user/<id>/student/ and GET /api/user/<id>/teacher/
UserDetail(kind, id) ==
    /\ result' = [op |-> "detail", kind |-> kind, id |-> id,
                  outcome |-> call_get(kind, url_kwargs(id))]
    /\ UNCHANGED <<lessonVars, siteVars>>

\* everything but the accounts, as the account views find it
NoLessons ==
    /\ lessons = <<>>
    /\ subject_teacher = {}
    /\ subject_group = {}
    /\ self = NoLesson
    /\ result = NoResult
    /\ all_cleaned = FALSE
    /\ faculties = {}
    /\ group_faculty = <<>>
    /\ now = 0
    /\ subjects = {}
    /\ teachers = <<>>
    /\ students = <<>>

\* registrations, from an empty table of accounts: SpecRegister
InitRegister ==
    /\ NoLessons
    /\ app_user = <<>>
    /\ profiles = {}
    /\ session = None

NextRegister ==
    \E email \in Emails, username \in Usernames, password \in Passwords :
        Register(email, username, password)

SpecRegister == InitRegister /\ [][NextRegister]_vars

\* the rows registrations leave, and the tables of accounts they can build:
\* the emails of a table differ
RegisteredRows ==
    {NewUser([email |-> e, username |-> <<"u">>, password |-> p]) :
        e \in {<<"a", "@", "b">>, <<"c", "@", "b">>},
        p \in {Rep("x", 8), <<" ">> \o Rep("y", 8)}}

AccountTables ==
    {t \in UNION {[1..n -> RegisteredRows] : n \in 0..MaxUsers} :
        \A p \in DOMAIN t, q \in DOMAIN t : p # q => t[p].email # t[q].email}

\* logins and logouts of one client: SpecLogin
InitLogin ==
    /\ NoLessons
    /\ app_user \in AccountTables
    /\ profiles = {}
    /\ session = None

NextLogin ==
    \/ \E email \in Emails, password \in Passwords : Login(email, password)
    \/ Logout
    \/ \E pk \in UserIds, flag \in BOOLEAN : AdminSetActive(pk, flag)

SpecLogin == InitLogin /\ [][NextLogin]_vars

\* the user detail views: SpecDetail
InitDetail ==
    /\ NoLessons
    /\ app_user \in AccountTables
    /\ profiles = {}
    /\ session = None

NextDetail ==
    \/ \E kind \in {"student", "teacher"}, pk \in UserIds : AdminAddProfile(kind, pk)
    \/ \E kind \in {"student", "teacher"}, id \in UserIds : UserDetail(kind, id)

SpecDetail == InitDetail /\ [][NextDetail]_vars

----------------------------------------------------------------------------
(* models.py: the validators of the created and modified timestamps, and   *)
(* the clock: SpecTime                                                     *)

\* check_created refusing the current instant too (>= for >)
check_created_Strict(dt, current) == IF dt >= current THEN "ValidationError" ELSE "ok"

\* check_created(dt), with get_datetime() returning current
check_created(dt, current) == IF dt > current THEN "ValidationError" ELSE "ok"

\* check_modified(dt)
check_modified(dt, current) == IF dt > current THEN "ValidationError" ELSE "ok"

\* the timestamps handed to the validators: up to one tick after the last
\* instant of the clock
Timestamps == 0..(MaxNow + 1)

\* time passes
Tick ==
    /\ now < MaxNow
    /\ now' = now + 1
    /\ UNCHANGED <<lessonVars, result, faculties, group_faculty, app_user, profiles,
                   session, rosterVars>>

CallCheckCreated(dt) ==
    /\ result' = [op |-> "check_created", outcome |-> check_created(dt, now),
                  dt |-> dt, at |-> now]
    /\ UNCHANGED <<lessonVars, siteVars>>

CallCheckModified(dt) ==
    /\ result' = [op |-> "check_modified", outcome |-> check_modified(dt, now),
                  dt |-> dt, at |-> now]
    /\ UNCHANGED <<lessonVars, siteVars>>

InitTime ==
    /\ NoLessons
    /\ app_user = <<>>
    /\ profiles = {}
    /\ session = None

NextTime ==
    \/ Tick
    \/ \E dt \in Timestamps : CallCheckCreated(dt) \/ CallCheckModified(dt)

SpecTime == InitTime /\ [][NextTime]_vars

----------------------------------------------------------------------------
(* views.py: the list of the lessons view set with its query parameters:   *)
(* SpecList                                                                *)

\* the value of a decimal digit, None for any other character
DigitValue(c) ==
    CASE c = "0" -> 0 [] c = "1" -> 1 [] c = "2" -> 2 [] c = "3" -> 3
      [] c = "4" -> 4 [] c = "5" -> 5 [] c = "6" -> 6 [] c = "7" -> 7
      [] c = "8" -> 8 [] c = "9" -> 9 [] OTHER -> None

RECURSIVE int(_)
\* int(str) as the field of a look-up applies it: the number a string of
\* digits denotes, None where Python raises ValueError
int(str) ==
    IF str = <<>> THEN None
    ELSE LET d == DigitValue(str[Len(str)])
         IN  IF d = None THEN None
             ELSE IF Len(str) = 1 THEN d
             ELSE LET rest == int(SubSeq(str, 1, Len(str) - 1))
                  IN  IF rest = None THEN None ELSE rest * 10 + d

\* LessonSerializer.Meta.fields
LessonFields ==
    {"id", "lesson_slot", "date", "start_time", "end_time", "subject", "teacher", "group"}

\* query_from_request(request, serializer): the parameters of request.GET
\* that name a field of the serializer and have a non-empty value
query_from_request(GET, fields) ==
    [attr \in {a \in DOMAIN GET \cap fields : GET[a] # <<>>} |-> GET[attr]]

\* the column of a row a look-up by a serialized field reads
FieldOf(row, attr) == IF attr = "id" THEN row.pk ELSE row[attr]

\* cls_model.objects.filter(**query) on the lessons: every value is
\* converted by its field (numbers here; the primary keys are written as
\* numbers); raised names the exception of a conversion that fails:
\* ValueError from the IntegerField lesson_slot, ValidationError from the
\* UUID and date fields
filter(store, query) ==
    IF \E attr \in DOMAIN query : int(query[attr]) = None
    THEN [raised |-> IF "lesson_slot" \in DOMAIN query /\ int(query.lesson_slot) = None
                     THEN "ValueError" ELSE "ValidationError",
          rows |-> {}]
    ELSE [raised |-> "no",
          rows |-> {row \in Range(store) :
                      \A attr \in DOMAIN query : FieldOf(row, attr) = int(query[attr])}]

\* the sequences that enumerate a set of rows, each row once
Perms(rows) ==
    {sq \in [1..Cardinality(rows) -> rows] :
        \A i \in DOMAIN sq, j \in DOMAIN sq : i # j => sq[i] # sq[j]}

\* .order_by('subject'): the rows in the order of their subject; where the
\* rows without a subject go (before or after the others) and the order of
\* rows of one subject are the database's choice
order_by_subject(rows) ==
    {sq \in Perms(rows) :
        \E nulls \in {0, NumSubjects + 1} :
            \A i \in DOMAIN sq, j \in DOMAIN sq :
                i < j => (IF sq[i].subject = None THEN nulls ELSE sq[i].subject)
                            <= (IF sq[j].subject = None THEN nulls ELSE sq[j].subject)}

\* the parameters of a list request and their values
QueryKeys == {"lesson_slot", "teacher", "foo"}
QueryValues == {<<>>, <<"1">>, <<"2">>, <<"x">>}

\* GET /api/lessons/?...: ModelViewSet.list over get_queryset(); GET is one
\* of the safe methods of Permission
ApiList(user, GET) ==
    /\ has_permission("GET", user)
    /\ LET f == filter(lessons, query_from_request(GET, LessonFields))
       IN  IF f.raised # "no"
           THEN result' = [op |-> "GET", outcome |-> f.raised, query |-> GET, data |-> <<>>]
           ELSE \E sq \in order_by_subject(f.rows) :
                   result' = [op |-> "GET", outcome |-> "200", query |-> GET,
                              data |-> [i \in DOMAIN sq |-> LessonSerializer_data(sq[i])]]
    /\ UNCHANGED <<lessonVars, siteVars>>

\* stored lessons of several slots, subjects and teachers
ListedRows(pk) ==
    {Created(pk, d, k, sb, t, None) :
        d \in Dates, k \in {None, 1, 2}, sb \in Opt(Subjects), t \in Opt(Teachers)}

InitList ==
    /\ lessons \in UNION {{t \in [1..n -> UNION {ListedRows(pk) : pk \in 1..n}] :
                               \A pk \in 1..n : t[pk].pk = pk} : n \in 0..MaxLessons}
    /\ subject_teacher = {}
    /\ subject_group = {}
    /\ self = NoLesson
    /\ result = NoResult
    /\ all_cleaned = FALSE
    /\ RestSite

NextList == \E user \in Users, GET \in [QueryKeys -> QueryValues] : ApiList(user, GET)

SpecList == InitList /\ [][NextList]_vars


----------------------------------------------------------------------------
(* Updates of a stored lesson that name a teacher, a group or a subject:   *)
(* SpecUpdate                                                              *)

\* the fields of LessonSerializer a request can write: teacher, group and
\* subject are read_only, id is the primary key, start_time and end_time
\* are editable=False
WritableFields == {"date", "lesson_slot"}

\* serializer.validated_data: the writable fields the body names
validated_data(body) == [k \in DOMAIN body \cap WritableFields |-> body[k]]

\* ModelSerializer.update(instance, validated_data): setattr for every
\* validated field; the instance is then saved as it is
update(instance, data) ==
    [k \in DOMAIN instance |-> IF k \in DOMAIN data THEN data[k] ELSE instance[k]]

\* the bodies of an update that names a subject, a teacher and a group,
\* alone or along with a date and a slot
UpdateBodies ==
    [subject : Subjects, teacher : Teachers, group : Groups]
    \cup [subject : Subjects, teacher : Teachers, group : Groups,
          date : Dates, lesson_slot : FormSlots]

\* PUT or PATCH /api/lessons/<pk>/ with such a body: ModelViewSet.update ->
\* serializer.is_valid() -> serializer.save() -> update(instance,
\* validated_data), instance.save()
ApiUpdateWith(method, user, pk, body) ==
    /\ pk \in DOMAIN lessons
    /\ IF ~has_permission(method, user)
       THEN /\ result' = [op |-> method, outcome |-> "403", body |-> body]
            /\ lessons' = lessons
       ELSE IF "lesson_slot" \in DOMAIN body /\ ~is_valid(body.date, body.lesson_slot)
       THEN /\ result' = [op |-> method, outcome |-> "400", body |-> body]
            /\ lessons' = lessons
       ELSE /\ result' = [op |-> method, outcome |-> "200", body |-> body]
            /\ lessons' = Saved(lessons,
                                [update(lessons[pk], validated_data(body))
                                    EXCEPT !.cleaned = FALSE])
    /\ all_cleaned' = (all_cleaned /\ result'.outcome # "200")
    /\ UNCHANGED <<self, subject_teacher, subject_group, siteVars>>

\* one stored lesson on slot 1, as objects.create or a clean() before save()
\* left it, and any association tables
InitUpdate ==
    /\ lessons \in {(1 :> row) : row \in EarlierRows(1)}
    /\ subject_teacher \in AssocChoices(Subjects \X Teachers)
    /\ subject_group \in AssocChoices(Subjects \X Groups)
    /\ self = NoLesson
    /\ result = NoResult
    /\ all_cleaned = FALSE
    /\ RestSite

NextUpdate ==
    \/ \E user \in Users, pk \in LessonIds, body \in UpdateBodies,
          method \in {"PUT", "PATCH"} : ApiUpdateWith(method, user, pk, body)
    \/ \E pk \in LessonIds, d \in Dates, k \in FormSlots, s \in Subjects,
          t \in Teachers, g \in Groups : AdminChange(pk, d, k, s, t, g)

SpecUpdate == InitUpdate /\ [][NextUpdate]_vars


----------------------------------------------------------------------------
(* Two lessons added through the admin by requests that run side by side,  *)
(* with every teacher and every group associated with every subject:       *)
(* SpecRace                                                                *)

InitRace ==
    /\ lessons = <<>>
    /\ subject_teacher = Subjects \X Teachers
    /\ subject_group = Subjects \X Groups
    /\ self = NoLesson
    /\ result = NoResult
    /\ all_cleaned = TRUE
    /\ RestSite

\* a further request is admitted while fewer than two lessons are stored or
\* wait for their save
Admitted == lessons = <<>> \/ (self = NoLesson /\ Cardinality(DOMAIN lessons) = 1)

\* one request is taken in two steps, its validation and its save; the
\* other is taken whole, before, in between or after
NextRace ==
    \/ /\ Admitted
       /\ \E d \in Dates, k \in LESSON_SLOT_CHOICES, s \in Subjects,
             t \in Teachers, g \in Groups :
             BeginAdd(d, k, s, t, g) \/ AdminAdd(d, k, s, t, g)
    \/ FinishAdd

SpecRace == InitRace /\ [][NextRace]_vars


----------------------------------------------------------------------------
(* validate_lesson on a candidate with a date and a slot of the table,     *)
(* against a stored lesson whose interval was derived the same way:        *)
(* SpecSlots                                                               *)

\* the stored lesson: of the candidate's teacher, of its group or of both,
\* as a validate_lesson before save() left it
ResolvedRows(pk) ==
    {Resolve(Created(pk, d, k, None, t, g)).obj :
        d \in Dates, k \in LESSON_SLOT_CHOICES, t \in Opt(Teachers), g \in Opt(Groups)}

InitSlots ==
    /\ lessons \in {(1 :> row) : row \in ResolvedRows(1)}
    /\ self \in {Lesson(2, d, k, None, t, g) :
                    d \in Dates, k \in LESSON_SLOT_CHOICES, t \in Teachers, g \in Groups}
    /\ subject_teacher = {}
    /\ subject_group = {}
    /\ result = NoResult
    /\ all_cleaned = FALSE
    /\ RestSite

NextSlots == CallValidateLesson

SpecSlots == InitSlots /\ [][NextSlots]_vars


----------------------------------------------------------------------------
(* Registrations, logins and the requests of the logged-in account on a    *)
(* view set: SpecPrivilege                                                 *)

\* request.user as has_permission reads it: the account of the session, or
\* AnonymousUser, whose two flags are False
request_user ==
    IF session = None
    THEN [is_superuser |-> FALSE, is_staff |-> FALSE]
    ELSE [is_superuser |-> app_user[session].is_superuser,
          is_staff |-> app_user[session].is_staff]

\* registration bodies that name the two flags as well
FlaggedBodies ==
    [email : {<<"a", "@", "b">>, <<"c", "@", "b">>}, username : {<<"u">>},
     password : {Rep("x", 8)}, is_superuser : BOOLEAN, is_staff : BOOLEAN]

\* UserRegister.post with such a body: custom_validation returns the data as
\* it came, and UserRegisterSerializer.create reads email, password and
\* username of it
RegisterAs(data) ==
    LET outcome ==
            IF custom_validation(data, app_user) # "ok" THEN "ValidationError"
            ELSE IF ~register_is_valid(data, app_user) THEN "400"
            ELSE IF email_exists(app_user, normalize_email(data.email)) THEN "IntegrityError"
            ELSE "201"
    IN  /\ outcome = "201" => UserIds \ DOMAIN app_user # {}
        /\ result' = [op |-> "register", outcome |-> outcome, data |-> data]
        /\ app_user' = IF outcome = "201"
                       THEN (FreshUser :> NewUser(data)) @@ app_user
                       ELSE app_user
        /\ UNCHANGED <<lessonVars, faculties, group_faculty, profiles, session, now,
                       rosterVars>>

\* the accounts at the start: none, or the one manage.py createsuperuser made
InitPrivilege ==
    /\ lessons = <<>>
    /\ subject_teacher = {}
    /\ subject_group = {}
    /\ self = NoLesson
    /\ result = NoResult
    /\ all_cleaned = FALSE
    /\ faculties = {1}
    /\ group_faculty = <<>>
    /\ now = 0
    /\ subjects = {}
    /\ teachers = <<>>
    /\ students = <<>>
    /\ app_user \in {<<>>, (1 :> create_superuser(<<"r", "@", "b">>, <<"r">>, Rep("z", 8)))}
    /\ profiles = {}
    /\ session = None

NextPrivilege ==
    \/ \E data \in FlaggedBodies : RegisterAs(data)
    \/ \E email \in {<<"a", "@", "b">>, <<"c", "@", "b">>, <<"r", "@", "b">>},
          password \in {Rep("x", 8), Rep("z", 8)} : Login(email, password)
    \/ Logout
    \/ \E f \in FacultyIds :
          \/ ApiCreateFaculty(request_user, f)
          \/ ApiUpdateFaculty("PUT", request_user, f)
          \/ ApiDestroyFaculty(request_user, f)

SpecPrivilege == InitPrivilege /\ [][NextPrivilege]_vars

----------------------------------------------------------------------------
(* The deletes of every model, each with its on_delete=CASCADE relations:  *)
(* SpecCascade                                                             *)

\* the delete of a set of teachers, with what hangs on them by
\* on_delete=CASCADE, and the lessons left behind
DeleteTeachers_KeepLessons(ts) ==
    /\ teachers' = [t \in DOMAIN teachers \ ts |-> teachers[t]]
    /\ lessons' = lessons
    /\ subject_teacher' = {r \in subject_teacher : r[2] \notin ts}

\* the delete of a set of teachers, with what hangs on them by
\* on_delete=CASCADE: Lesson.teacher and SubjectTeacher.teacher
DeleteTeachers(ts) ==
    /\ teachers' = [t \in DOMAIN teachers \ ts |-> teachers[t]]
    /\ lessons' = [pk \in {q \in DOMAIN lessons : lessons[q].teacher \notin ts} |-> lessons[pk]]
    /\ subject_teacher' = {r \in subject_teacher : r[2] \notin ts}

\* DELETE /api/teachers/<pk>/
ApiDestroyTeacher(user, t) ==
    /\ t \in DOMAIN teachers
    /\ IF ~has_permission("DELETE", user)
       THEN /\ result' = [op |-> "DELETE", path |-> "teachers", user |-> user,
                          outcome |-> "403", pk |-> t]
            /\ UNCHANGED <<teachers, lessons, subject_teacher, profiles>>
       ELSE /\ result' = [op |-> "DELETE", path |-> "teachers", user |-> user,
                          outcome |-> "204", pk |-> t]
            /\ DeleteTeachers({t})
            /\ profiles' = Links(teachers', students)
    /\ UNCHANGED <<subject_group, self, all_cleaned, faculties, group_faculty,
                   app_user, session, now, subjects, students>>

\* DELETE /api/subjects/<pk>/: Lesson.subject, SubjectTeacher.subject and
\* SubjectGroup.subject are on_delete=CASCADE
ApiDestroySubject(user, s) ==
    /\ s \in subjects
    /\ IF ~has_permission("DELETE", user)
       THEN /\ result' = [op |-> "DELETE", path |-> "subjects", user |-> user,
                          outcome |-> "403", pk |-> s]
            /\ UNCHANGED <<subjects, lessons, subject_teacher, subject_group>>
       ELSE /\ result' = [op |-> "DELETE", path |-> "subjects", user |-> user,
                          outcome |-> "204", pk |-> s]
            /\ subjects' = subjects \ {s}
            /\ lessons' = [pk \in {q \in DOMAIN lessons : lessons[q].subject # s}
                              |-> lessons[pk]]
            /\ subject_teacher' = {r \in subject_teacher : r[1] # s}
            /\ subject_group' = {r \in subject_group : r[1] # s}
    /\ UNCHANGED <<self, all_cleaned, faculties, group_faculty, app_user, profiles,
                   session, now, teachers, students>>

\* DELETE /api/students/<pk>/: no model refers to a student
ApiDestroyStudent(user, n) ==
    /\ n \in DOMAIN students
    /\ IF ~has_permission("DELETE", user)
       THEN /\ result' = [op |-> "DELETE", path |-> "students", user |-> user,
                          outcome |-> "403", pk |-> n]
            /\ UNCHANGED <<students, profiles>>
       ELSE /\ result' = [op |-> "DELETE", path |-> "students", user |-> user,
                          outcome |-> "204", pk |-> n]
            /\ students' = [q \in DOMAIN students \ {n} |-> students[q]]
            /\ profiles' = Links(teachers, students')
    /\ UNCHANGED <<lessonVars, faculties, group_faculty, app_user, session, now,
                   subjects, teachers>>

\* CustomUserAdmin, delete view: Teacher.user and Student.user are
\* on_delete=CASCADE, and the teacher takes its own relations along; a session
\* of the deleted account resolves to no user any more
AdminDeleteUser(u) ==
    /\ u \in DOMAIN app_user
    /\ app_user' = [q \in DOMAIN app_user \ {u} |-> app_user[q]]
    /\ DeleteTeachers({t \in DOMAIN teachers : teachers[t] = u})
    /\ students' = [n \in {q \in DOMAIN students : students[q].user # u} |-> students[n]]
    /\ profiles' = Links(teachers', students')
    /\ session' = IF session = u THEN None ELSE session
    /\ result' = [op |-> "AdminDeleteUser", outcome |-> "ok", pk |-> u]
    /\ UNCHANGED <<subject_group, self, all_cleaned, faculties, group_faculty, now,
                   subjects>>

\* request.user of the requests: a superuser, or AnonymousUser
Requesters ==
    {[is_superuser |-> TRUE, is_staff |-> TRUE], [is_superuser |-> FALSE, is_staff |-> FALSE]}

\* a populated site: every faculty, group, subject and teacher; every group in
\* the first faculty or spread over the faculties; the teachers and one
\* student linked to accounts of their own; the first lesson with a subject, a
\* teacher and a group, the later ones with a group alone; every association
InitCascade ==
    /\ faculties = FacultyIds
    /\ group_faculty \in {[g \in GroupIds |-> 1],
                          [g \in GroupIds |-> ((g - 1) % NumFaculties) + 1]}
    /\ subjects = Subjects
    /\ app_user = [u \in UserIds |->
                     NewUser([email |-> Rep("a", u) \o <<"@", "b">>, username |-> Rep("u", u),
                              password |-> Rep("x", 8)])]
    /\ teachers = [t \in Teachers |-> IF t < MaxUsers THEN t ELSE None]
    /\ students \in {(1 :> [user |-> MaxUsers, group |-> g]) : g \in GroupIds}
    /\ profiles = Links(teachers, students)
    /\ lessons = [pk \in LessonIds |->
                     IF pk = 1
                     THEN Resolve(Created(1, 1, 1, 1, 1, 1)).obj
                     ELSE Resolve(Created(pk, 1, 1, None, None,
                                          IF pk \in GroupIds THEN pk ELSE None)).obj]
    /\ subject_teacher = Subjects \X Teachers
    /\ subject_group = Subjects \X GroupIds
    /\ self = NoLesson
    /\ result = NoResult
    /\ all_cleaned = FALSE
    /\ session = None
    /\ now = 0

NextCascade ==
    \/ \E user \in Requesters :
          \/ \E f \in FacultyIds : ApiDestroyFaculty(user, f)
          \/ \E g \in GroupIds : ApiDestroyGroup(user, g)
          \/ \E t \in Teachers : ApiDestroyTeacher(user, t)
          \/ \E s \in Subjects : ApiDestroySubject(user, s)
          \/ \E n \in {1} : ApiDestroyStudent(user, n)
          \/ \E pk \in LessonIds : ApiDestroy(user, pk)
    \/ \E u \in UserIds : AdminDeleteUser(u)

SpecCascade == InitCascade /\ [][NextCascade]_vars

\* the rows of the association tables, read as the specification reads them
AssociatedTeachers(subject) == {t \in Teachers : <<subject, t>> \in subject_teacher}
AssociatedGroups(subject) == {g \in Groups : <<subject, g>> \in subject_group}

Cleaned == result.op = "clean"
Validated == result.op = "validate_lesson"

HasInterval(l) == l.start_time # None /\ l.end_time # None

\* C3: clean() raises the UnauthorizedTeacher error whenever the candidate's
\* teacher is not among the teachers associated with the candidate's subject,
\* whatever the group and whatever lessons are stored.
C3_UnauthorizedTeacherFirst ==
    (Cleaned /\ self.teacher \notin AssociatedTeachers(self.subject))
        => result.outcome = "UnauthorizedTeacher"

\* C4: clean() raises the UnauthorizedGroup error whenever the teacher is
\* associated with the subject and the group is not, and it does so before
\* validate_lesson runs: no interval is derived on the candidate, whatever
\* lessons are stored.
C4_UnauthorizedGroupSecond ==
    (/\ Cleaned
     /\ self.teacher \in AssociatedTeachers(self.subject)
     /\ self.group \notin AssociatedGroups(self.subject))
        => (result.outcome = "UnauthorizedGroup" /\ ~HasInterval(self))

\* C4 witness: the group is refused although the stored lesson of the same
\* teacher is on the very slot of the candidate
C4_Witness ==
    /\ Cleaned
    /\ result.outcome = "UnauthorizedGroup"
    /\ self.teacher \in AssociatedTeachers(self.subject)
    /\ self.group \in Groups
    /\ self.date \in Dates /\ self.lesson_slot = 1
    /\ \E l \in Range(lessons) :
          l.pk # self.pk /\ l.teacher = self.teacher /\ HasInterval(l)
            /\ l.date = self.date /\ l.lesson_slot = 1

\* the stored lesson and the candidate touch at one end
Touching(l, obj) ==
    /\ HasInterval(l) /\ HasInterval(obj)
    /\ (l.end_time = obj.start_time \/ l.start_time = obj.end_time)

\* C6: a candidate whose interval touches the interval of a stored lesson of
\* the same teacher, or of the same group, is not accepted by validate_lesson;
\* for the same teacher it returns False.
C6_TouchingConflicts ==
    \A l \in Range(lessons) :
        (Validated /\ l.pk # self.pk /\ Touching(l, self)) =>
            /\ (self.teacher # None /\ l.teacher = self.teacher
                    /\ result.outcome # "ValueError")
                  => result.outcome = "False"
            /\ (self.group # None /\ l.group = self.group)
                  => result.outcome # "True"

\* C6 witness: [9:00, 10:30] stored, [10:30, 12:15] for the same teacher and
\* another group refused
C6_Witness ==
    /\ Validated
    /\ result.outcome = "False"
    /\ \E l \in Range(lessons) : \E d \in Dates :
          /\ l.teacher = self.teacher /\ l.group # self.group
          /\ l.start_time = combine(d, time(9, 0))
          /\ l.end_time = combine(d, time(10, 30))
          /\ self.start_time = combine(d, time(10, 30))
          /\ self.end_time = combine(d, time(12, 15))

\* C7: for a lesson with a date, a teacher and a group, validate_lesson
\* raises the invalid-slot error for every slot number outside 1..6 (0 and 7
\* among them), and derives no interval.
C7_InvalidSlotRaises ==
    (/\ Validated
     /\ self.date # None
     /\ self.teacher # None /\ self.group # None
     /\ self.lesson_slot # None
     /\ self.lesson_slot \notin 1..6)
        => (result.outcome = "ValueError" /\ ~HasInterval(self))

\* C8: when another stored lesson has the date, slot, teacher and group of
\* the candidate, clean() on the candidate (here one with a subject) raises
\* a ValidationError, whether the stored lesson carries an interval or was
\* stored by objects.create without one.
C8_SameSlotRejected ==
    \A l \in Range(lessons) :
        (/\ Cleaned
         /\ self.subject # None
         /\ l.pk # self.pk
         /\ l.date # None /\ l.date = self.date
         /\ l.lesson_slot \in 1..6 /\ l.lesson_slot = self.lesson_slot
         /\ l.teacher = self.teacher
         /\ l.group = self.group)
            => IsValidationError(result.outcome)

\* C9: clean() on a lesson (with a subject) whose slot number is outside
\* 1..6 raises a ValidationError and nothing else, whatever the teacher and
\* the group.
C9_BadSlotValidationError ==
    (/\ Cleaned
     /\ self.subject # None
     /\ self.lesson_slot # None
     /\ self.lesson_slot \notin 1..6)
        => IsValidationError(result.outcome)

\* the slot table as the specification states it: <<start, end>> per slot
ClockTable ==
    <<  <<time(9, 0),   time(10, 30)>>,
        <<time(10, 45), time(12, 15)>>,
        <<time(13, 15), time(14, 45)>>,
        <<time(15, 0),  time(16, 30)>>,
        <<time(16, 45), time(18, 15)>>,
        <<time(18, 30), time(20, 0)>>  >>

\* C10: after validate_lesson on a candidate with a date and a slot in 1..6
\* the candidate carries the table pair of that slot on that date, and a
\* second resolution leaves the same pair.
C10_SlotTable ==
    (Validated /\ self.date \in Dates /\ self.lesson_slot \in 1..6) =>
        /\ self.start_time = self.date * 1440 + ClockTable[self.lesson_slot][1]
        /\ self.end_time = self.date * 1440 + ClockTable[self.lesson_slot][2]
        /\ validate_lesson(self, lessons).obj.start_time = self.start_time
        /\ validate_lesson(self, lessons).obj.end_time = self.end_time

\* C10 witness: slot 6 resolved to 18:30-20:00 on the date
C10_Witness ==
    /\ Validated
    /\ self.date \in Dates /\ self.lesson_slot = 6
    /\ self.start_time = combine(self.date, time(18, 30))
    /\ self.end_time = combine(self.date, time(20, 0))

----------------------------------------------------------------------------
(* Properties of the store *)

\* two stored lessons share a teacher or share a group
SameTeacherOrGroup(a, b) ==
    \/ (a.teacher # None /\ a.teacher = b.teacher)
    \/ (a.group # None /\ a.group = b.group)

\* the half-open intervals [start, end) of two lessons intersect
Overlap(a, b) ==
    /\ HasInterval(a) /\ HasInterval(b)
    /\ a.start_time < b.end_time
    /\ b.start_time < a.end_time

\* C1: when every save so far followed a clean() that passed, no two stored
\* lessons of the same teacher, and no two of the same group, overlap.
C1_NoOverlap ==
    all_cleaned =>
        \A p \in DOMAIN lessons, q \in DOMAIN lessons :
            (p # q /\ SameTeacherOrGroup(lessons[p], lessons[q]))
                => ~Overlap(lessons[p], lessons[q])

\* the rows a step has inserted or replaced
Written(old, new) ==
    {pk \in DOMAIN new : pk \notin DOMAIN old \/ new[pk] # old[pk]}

\* C2: a POST, PUT or PATCH on /api/lessons/ stores a lesson only if
\* Lesson.clean(), run on that lesson against the store of the moment,
\* passes: a write that fails the authorization or the overlap check leaves
\* the store as it was.
C2_ApiWritesValidated ==
    [][ (result'.op \in {"POST", "PUT", "PATCH"}) =>
            \A pk \in Written(lessons, lessons') :
                clean(lessons'[pk], lessons, subject_teacher, subject_group).outcome = "ok"
      ]_vars

\* C5: every stored lesson's teacher and group are associated with its
\* subject; stated for the stores all of whose saves followed a clean() that
\* passed, so that the lessons themselves were authorized when they were
\* written.
C5_StoredLessonsAuthorized ==
    all_cleaned =>
        \A pk \in DOMAIN lessons :
            /\ lessons[pk].teacher \in AssociatedTeachers(lessons[pk].subject)
            /\ lessons[pk].group \in AssociatedGroups(lessons[pk].subject)

\* C11: every stored lesson with a date and a slot in 1..6, read back through
\* the serializer, carries the table interval of that date and slot; for
\* slot 1 on date D that is D 09:00 - D 10:30.
C11_RoundTrip ==
    \A pk \in DOMAIN lessons :
        LET data == LessonSerializer_data(lessons[pk])
        IN  (data.date \in Dates /\ data.lesson_slot \in 1..6) =>
                /\ data.start_time = data.date * 1440 + ClockTable[data.lesson_slot][1]
                /\ data.end_time = data.date * 1440 + ClockTable[data.lesson_slot][2]

\* C12: a candidate with a date, a slot in 1..6 and an authorized teacher and
\* group, whose teacher has no stored lesson, is refused by clean() only for
\* a stored lesson of its group; when the group has no stored lesson either,
\* validate_lesson returns True and clean() passes.
C12_FreeTeacherPasses ==
    (/\ Cleaned
     /\ self.date \in Dates /\ self.lesson_slot \in 1..6
     /\ self.subject # None
     /\ self.teacher \in AssociatedTeachers(self.subject)
     /\ self.group \in AssociatedGroups(self.subject)
     /\ TeachersLessons(lessons, self.teacher) = {})
        => /\ \/ result.outcome = "ok"
              \/ /\ result.outcome = "Busy"
                 /\ \E l \in GroupLessons(lessons, self.group) : Conflicts(l, self)
           /\ GroupLessons(lessons, self.group) = {}
                => /\ result.outcome = "ok"
                   /\ validate_lesson(self, lessons).ret = "True"

\* C12 witness: a valid candidate passes clean() against a store that holds
\* a lesson of nobody
C12_Witness ==
    /\ Cleaned
    /\ result.outcome = "ok"
    /\ self.date \in Dates /\ self.lesson_slot \in 1..6
    /\ self.teacher \in AssociatedTeachers(self.subject)
    /\ self.group \in AssociatedGroups(self.subject)
    /\ lessons # <<>>
    /\ TeachersLessons(lessons, self.teacher) = {}
    /\ GroupLessons(lessons, self.group) = {}

----------------------------------------------------------------------------
(* Properties of the REST view sets and of the cascade *)

\* the status a view set gives a permitted request
SuccessStatus(op) ==
    CASE op = "POST" -> "201"
      [] op = "PUT" -> "200"
      [] op = "DELETE" -> "204"

\* C13: a POST, PUT or DELETE on a view set by a user who is neither
\* superuser nor staff is answered 403 and changes no table; the same request
\* by a superuser is answered 201, 200 and 204.
C13_ManageByRole ==
    [][ (result'.op \in {"POST", "PUT", "DELETE"}) =>
            /\ (~result'.user.is_superuser /\ ~result'.user.is_staff) =>
                  /\ result'.outcome = "403"
                  /\ UNCHANGED <<faculties, group_faculty, lessons, subject_group>>
            /\ result'.user.is_superuser =>
                  result'.outcome = SuccessStatus(result'.op)
      ]_vars

\* C14: no request on the lessons view set made by an ordinary user (neither
\* superuser nor staff), whatever its method, changes the table of lessons.
C14_NonSuperuserReadOnly ==
    [][ \A user \in Users :
          (/\ ~user.is_superuser /\ ~user.is_staff
           /\ \/ \E d \in ApiDates, k \in ApiSlots : ApiCreate(user, d, k)
              \/ \E pk \in LessonIds, d \in ApiDates, k \in ApiSlots,
                        method \in {"PUT", "PATCH"} : ApiUpdate(method, user, pk, d, k)
              \/ \E pk \in LessonIds : ApiDestroy(user, pk))
            => lessons' = lessons
      ]_vars

\* C15: no stored group refers to a missing faculty, and after a DELETE of a
\* faculty that was answered 204 the faculty is gone and no group with its
\* faculty_id is left.
C15_FacultyCascade ==
    /\ \A g \in DOMAIN group_faculty : group_faculty[g] \in faculties
    /\ (result.op = "DELETE" /\ result.path = "faculties" /\ result.outcome = "204")
          => /\ result.pk \notin faculties
             /\ \A g \in DOMAIN group_faculty : group_faculty[g] # result.pk

\* C15 witness: the delete of a faculty took a group along and left a group
\* of another faculty
C15_Witness ==
    /\ result.op = "DELETE" /\ result.path = "faculties" /\ result.outcome = "204"
    /\ result.deleted >= 1
    /\ group_faculty # <<>>

----------------------------------------------------------------------------
(* Properties of the account views *)

\* C16: a GET on a user detail path is answered 404 "user not found" when no
\* account has the id, else 404 "profile not found" when the account has no
\* linked profile of the kind, else 200; nothing else comes out of it.
C16_DetailOutcomes ==
    (result.op = "detail") =>
        result.outcome =
            IF result.id \notin DOMAIN app_user THEN "404 user"
            ELSE IF <<result.kind, result.id>> \notin profiles THEN "404 profile"
            ELSE "200"

\* the registration data the claim calls acceptable, against the accounts
\* stored before the request
Acceptable(data, accounts) ==
    /\ strip(data.email) # <<>>
    /\ \A pk \in DOMAIN accounts : accounts[pk].email # strip(data.email)
    /\ Len(strip(data.password)) >= 8
    /\ strip(data.username) # <<>>

\* C17: custom_validation lets a registration through exactly when its data
\* is acceptable; a registration that is not answered 201 creates no account;
\* and no two stored accounts have the same email.
C17_RegistrationRule ==
    [][ (result'.op = "register") =>
            /\ (result'.outcome # "ValidationError") <=> Acceptable(result'.data, app_user)
            /\ (result'.outcome # "201") => app_user' = app_user
            /\ \A p \in DOMAIN app_user', q \in DOMAIN app_user' :
                  p # q => app_user'[p].email # app_user'[q].email
      ]_vars

\* C17 witness: a registration refused for its email alone, sent with blanks
\* around an address an account has
C17_Witness ==
    /\ result.op = "register"
    /\ result.outcome = "ValidationError"
    /\ result.data.email # strip(result.data.email)
    /\ email_exists(app_user, strip(result.data.email))
    /\ Len(strip(result.data.password)) >= 8
    /\ strip(result.data.username) # <<>>
    /\ Cardinality(DOMAIN app_user) = 2

\* C18: a login is answered 200, with the session logged in as the matching
\* account, exactly when an account has the email and the password of the
\* request; otherwise it is answered 404 and the session stays as it was.
C18_LoginRule ==
    (result.op = "login") =>
        LET matching == {pk \in DOMAIN app_user :
                            /\ app_user[pk].email = result.data.email
                            /\ app_user[pk].password = result.data.password}
        IN  IF matching # {}
            THEN result.outcome = "200" /\ session \in matching
            ELSE result.outcome = "404" /\ session = result.before

----------------------------------------------------------------------------
(* Properties of the list and of the timestamp validators *)

\* the decimal digit of a number below ten
DigitChar(d) ==
    CASE d = 0 -> "0" [] d = 1 -> "1" [] d = 2 -> "2" [] d = 3 -> "3" [] d = 4 -> "4"
      [] d = 5 -> "5" [] d = 6 -> "6" [] d = 7 -> "7" [] d = 8 -> "8" [] d = 9 -> "9"

RECURSIVE str(_)
\* the text of a column value as a query parameter spells it
str(v) ==
    IF v = None THEN <<"N", "o", "n", "e">>
    ELSE IF v < 10 THEN <<DigitChar(v)>>
    ELSE str(v \div 10) \o <<DigitChar(v % 10)>>

\* C19: a list request is answered 200 with exactly the stored lessons whose
\* columns equal every non-empty parameter that names a serialized field,
\* each once, in the order of their subjects; empty parameters and
\* parameters that name no serialized field play no part.
C19_ListFilter ==
    (result.op = "GET") =>
        LET GET == result.query
            matching == {row \in Range(lessons) :
                           \A attr \in DOMAIN GET :
                              (attr \in LessonFields /\ GET[attr] # <<>>)
                                 => str(FieldOf(row, attr)) = GET[attr]}
        IN  /\ result.outcome = "200"
            /\ Len(result.data) = Cardinality(matching)
            /\ Range(result.data) = {LessonSerializer_data(row) : row \in matching}
            /\ \A i \in DOMAIN result.data, j \in DOMAIN result.data :
                  (i < j /\ result.data[i].subject # None /\ result.data[j].subject # None)
                     => result.data[i].subject <= result.data[j].subject

----------------------------------------------------------------------------
(* Properties of the updates of a stored lesson *)

\* the stored lesson pk with the subject, teacher and group of a request
Reassigned(pk, body) ==
    [update(lessons[pk], validated_data(body)) EXCEPT
        !.subject = body.subject, !.teacher = body.teacher, !.group = body.group,
        !.cleaned = FALSE]

\* C21: an update of a stored lesson through the REST view set that names a
\* subject, a teacher and a group is answered 200 only if clean() passes on
\* the lesson with these values against the store of the moment, and the
\* stored lesson then carries them; otherwise the stored lesson keeps its
\* subject, teacher and group.
C21_ReassignRevalidated ==
    [][ \A user \in Users, pk \in LessonIds, body \in UpdateBodies,
           method \in {"PUT", "PATCH"} :
          ApiUpdateWith(method, user, pk, body) =>
            LET c == clean(Reassigned(pk, body), lessons, subject_teacher, subject_group)
            IN  IF result'.outcome = "200"
                THEN /\ c.outcome = "ok"
                     /\ lessons'[pk].subject = body.subject
                     /\ lessons'[pk].teacher = body.teacher
                     /\ lessons'[pk].group = body.group
                ELSE /\ lessons'[pk].subject = lessons[pk].subject
                     /\ lessons'[pk].teacher = lessons[pk].teacher
                     /\ lessons'[pk].group = lessons[pk].group
      ]_vars


----------------------------------------------------------------------------
(* Properties of the requests that run side by side *)

\* no two lessons of the store that share a teacher or a group overlap
NoOverlapIn(store) ==
    \A p \in DOMAIN store, q \in DOMAIN store :
        (p # q /\ SameTeacherOrGroup(store[p], store[q])) => ~Overlap(store[p], store[q])

\* C22: the save of an instance that passed clean() stores it whatever has
\* been stored since its check, and a step breaks the no-overlap rule only
\* in this way: it is the save of a waiting instance that passed clean()
\* before another request stored a lesson clean() now finds it in conflict
\* with.
C22_CheckThenInsertRace ==
    [][ /\ (self # NoLesson /\ self' = NoLesson) => lessons' = Saved(lessons, self)
        /\ (NoOverlapIn(lessons) /\ ~NoOverlapIn(lessons')) =>
              /\ self # NoLesson
              /\ self.cleaned
              /\ lessons' = Saved(lessons, self)
              /\ clean(self, lessons, subject_teacher, subject_group).outcome = "Busy"
      ]_vars

\* C22 witness: two stored lessons of one teacher on the same interval, each
\* saved after a clean() that passed
C22_Witness ==
    /\ result.op = "save"
    /\ \E p \in DOMAIN lessons, q \in DOMAIN lessons :
          /\ p # q
          /\ lessons[p].cleaned /\ lessons[q].cleaned
          /\ lessons[p].teacher # None /\ lessons[p].teacher = lessons[q].teacher
          /\ HasInterval(lessons[p])
          /\ lessons[p].start_time = lessons[q].start_time
          /\ lessons[p].end_time = lessons[q].end_time


----------------------------------------------------------------------------
(* Properties of the outcomes and of the effects of the validation *)

\* the stored lesson l made a lesson of the candidate's group and of no
\* teacher, alone in the store
GroupOnly(l, obj) == (l.pk :> [l EXCEPT !.teacher = None, !.group = obj.group])

\* C23: the error clean() raises for a conflict with a stored lesson of the
\* candidate's teacher differs from the error it raises for a conflict with
\* a stored lesson of the candidate's group alone, so that the caller can
\* tell a busy teacher from a busy group.
C23_BusyTold ==
    \A l \in Range(lessons) :
        (/\ Cleaned
         /\ IsValidationError(result.outcome)
         /\ self.teacher \in AssociatedTeachers(self.subject)
         /\ self.group \in AssociatedGroups(self.subject)
         /\ HasInterval(self)
         /\ l.pk # self.pk
         /\ l.teacher = self.teacher
         /\ Conflicts(l, self))
            => clean(self, GroupOnly(l, self), subject_teacher, subject_group).outcome
                  # result.outcome


\* the fields of a lesson that validation only reads
InputFields == {"pk", "date", "lesson_slot", "subject", "teacher", "group"}

\* C24: a call of clean(), and the call of validate_lesson within it or on
\* its own, leaves the stored lessons and both association tables as they
\* were and changes nothing of the candidate but start_time and end_time,
\* whether it passes, refuses or raises.
C24_ValidationFrame ==
    [][ (result'.op = "clean") =>
            /\ lessons' = lessons
            /\ subject_teacher' = subject_teacher
            /\ subject_group' = subject_group
            /\ \A f \in InputFields :
                  /\ self'[f] = self[f]
                  /\ validate_lesson(self, lessons).obj[f] = self[f]
      ]_vars

\* C24 witness: clean() passed on a candidate that is itself stored; the
\* instance got its interval, its stored row has none
C24_Witness ==
    /\ Cleaned
    /\ result.outcome = "ok"
    /\ HasInterval(self)
    /\ self.pk \in DOMAIN lessons
    /\ ~HasInterval(lessons[self.pk])
    /\ lessons[self.pk].lesson_slot = self.lesson_slot


\* C25: the change form of a stored lesson that carries its derived
\* interval, saved with the date, slot, subject, teacher and group it has,
\* passes clean() when its teacher and group are associated with its subject
\* and no other stored lesson of the teacher or of the group conflicts with
\* it: the lesson is not in conflict with itself.
C25_NoSelfConflict ==
    [][ \A pk \in LessonIds, d \in Dates, k \in FormSlots, s \in Subjects,
           t \in Teachers, g \in Groups :
          (/\ AdminChange(pk, d, k, s, t, g)
           /\ HasInterval(lessons[pk])
           /\ lessons[pk].date = d /\ lessons[pk].lesson_slot = k
           /\ lessons[pk].subject = s /\ lessons[pk].teacher = t /\ lessons[pk].group = g
           /\ t \in AssociatedTeachers(s)
           /\ g \in AssociatedGroups(s)
           /\ \A q \in DOMAIN lessons \ {pk} :
                 (lessons[q].teacher = t \/ lessons[q].group = g)
                    => ~Conflicts(lessons[q], lessons[pk]))
            => result'.outcome = "ok"
      ]_vars


----------------------------------------------------------------------------
(* Properties of the overlap test *)

\* the reference predicate: two closed intervals intersect
Intersect(a, b) ==
    /\ HasInterval(a) /\ HasInterval(b)
    /\ a.start_time <= b.end_time
    /\ b.start_time <= a.end_time

\* C26: for a candidate with a teacher, a group and an interval,
\* validate_lesson returns False exactly when the interval intersects that
\* of a stored lesson of the teacher or of the group, a stored interval
\* lying strictly inside the candidate's included; and the test of one
\* lesson against another gives what the test of the other against the one
\* gives.
C26_OverlapIsIntersection ==
    (/\ Validated
     /\ self.teacher # None /\ self.group # None
     /\ HasInterval(self)
     /\ result.outcome \in {"True", "False"})
        => /\ (result.outcome = "False") <=>
                 \E l \in Range(lessons) :
                    /\ (l.teacher = self.teacher \/ l.group = self.group)
                    /\ Intersect(l, self)
           /\ \A l \in Range(lessons) :
                 (HasInterval(l) /\ (l.teacher = self.teacher \/ l.group = self.group))
                    => (Conflicts(l, self) <=> Conflicts(self, l))


----------------------------------------------------------------------------
(* Properties of the stored intervals *)

\* C27: every stored lesson has no start_time and no end_time, or has the
\* table pair of its date and its slot.
C27_IntervalNeverStale ==
    \A pk \in DOMAIN lessons :
        LET l == lessons[pk]
        IN  \/ (l.start_time = None /\ l.end_time = None)
            \/ /\ l.date \in Dates
               /\ l.lesson_slot \in 1..6
               /\ l.start_time = l.date * 1440 + ClockTable[l.lesson_slot][1]
               /\ l.end_time = l.date * 1440 + ClockTable[l.lesson_slot][2]


----------------------------------------------------------------------------
(* Properties of the accounts and of the cascades *)

\* the account has one of the two flags has_permission reads
Privileged(row) == row.is_superuser \/ row.is_staff

Referential ==
    /\ \A g \in DOMAIN group_faculty : group_faculty[g] \in faculties
    /\ \A pk \in DOMAIN lessons :
          /\ lessons[pk].teacher \in DOMAIN teachers \cup {None}
          /\ lessons[pk].group \in DOMAIN group_faculty \cup {None}
          /\ lessons[pk].subject \in subjects \cup {None}
    /\ \A n \in DOMAIN students :
          /\ students[n].group \in DOMAIN group_faculty \cup {None}
          /\ students[n].user \in DOMAIN app_user \cup {None}
    /\ \A t \in DOMAIN teachers : teachers[t] \in DOMAIN app_user \cup {None}
    /\ \A r \in subject_teacher : r[1] \in subjects /\ r[2] \in DOMAIN teachers
    /\ \A r \in subject_group : r[1] \in subjects /\ r[2] \in DOMAIN group_faculty

\* C30: after every delete no stored row references a deleted one, and the
\* rows that stay are the rows they were: the groups of a deleted faculty,
\* the students, lessons and subject associations of a deleted group, the
\* lessons and associations of a deleted teacher or subject, and the teacher
\* or student of a deleted account (with the teacher's lessons) are removed,
\* never left pointing at nothing or emptied of the reference
C30_NoDanglingReference ==
    [][/\ Referential'
       /\ faculties' \subseteq faculties
       /\ subjects' \subseteq subjects
       /\ subject_teacher' \subseteq subject_teacher
       /\ subject_group' \subseteq subject_group
       /\ \A g \in DOMAIN group_faculty' :
             g \in DOMAIN group_faculty /\ group_faculty'[g] = group_faculty[g]
       /\ \A pk \in DOMAIN lessons' :
             pk \in DOMAIN lessons /\ lessons'[pk] = lessons[pk]
       /\ \A t \in DOMAIN teachers' : t \in DOMAIN teachers /\ teachers'[t] = teachers[t]
       /\ \A n \in DOMAIN students' : n \in DOMAIN students /\ students'[n] = students[n]
       /\ \A u \in DOMAIN app_user' : u \in DOMAIN app_user /\ app_user'[u] = app_user[u]
      ]_vars

\* the account of the teacher of lesson 1 was deleted: the teacher and
\* lesson 1 went with it, while a lesson without a teacher, the student and
\* the student's account stayed
C30_Witness ==
    /\ result.op = "AdminDeleteUser"
    /\ 1 \notin DOMAIN app_user
    /\ 1 \notin DOMAIN teachers
    /\ 1 \notin DOMAIN lessons
    /\ 2 \in DOMAIN lessons
    /\ 1 \in DOMAIN students
    /\ students[1].user \in DOMAIN app_user

=============================================================================
